---- MODULE Spec2Model ----
(***************************************************************************)
(* Model of src/bot.py: the on_message handler of the Discord bot that     *)
(* relays mentions and direct messages to the Gemini backend.              *)
(*                                                                         *)
(* Every inbound message starts one invocation of on_message (a task of    *)
(* the event loop).  A task runs without interruption between two awaits,  *)
(* so one action of the model is one such run: from the arrival of the     *)
(* message, or from the completion of the awaited call, to the next await  *)
(* or to the end of the handler.                                           *)
(***************************************************************************)
EXTENDS Integers, Sequences, FiniteSets, TLC

VARIABLES tasks

vars == <<tasks>>

----------------------------------------------------------------------------
(* Bounds of the model *)

\* inbound messages of one run of the concurrent specification
MaxEvents == 2
\* pieces a raw message text is put together from
MaxPieces == 3
\* full chunks a generated reply may span, and the slack around a multiple
MaxFull == 2
Slack == 2

----------------------------------------------------------------------------
(* Strings are sequences of characters *)

Min(a, b) == IF a < b THEN a ELSE b

\* python slice s[i:j] with 0 <= i <= j (0-based, j exclusive, clipped)
Slice(s, i, j) == SubSeq(s, i + 1, Min(j, Len(s)))

\* 1-based index of the leftmost occurrence of old in s, 0 if none
Find(s, old) ==
    LET hits == {k \in 1..(Len(s) - Len(old) + 1) :
                    SubSeq(s, k, k + Len(old) - 1) = old}
    IN  IF hits = {} THEN 0 ELSE CHOOSE k \in hits : \A j \in hits : k <= j

Contains(s, old) == Find(s, old) # 0

\* python s.replace(old, '', 1)
ReplaceFirst(s, old) ==
    LET k == Find(s, old)
    IN  IF k = 0 THEN s
        ELSE SubSeq(s, 1, k - 1) \o SubSeq(s, k + Len(old), Len(s))

WhiteSpace == {" ", "\n"}

\* python s.strip()
Strip(s) ==
    LET keep == {k \in 1..Len(s) : s[k] \notin WhiteSpace}
    IN  IF keep = {} THEN <<>>
        ELSE SubSeq(s, CHOOSE k \in keep : \A j \in keep : k <= j,
                       CHOOSE k \in keep : \A j \in keep : k >= j)

----------------------------------------------------------------------------
(* Identities and mention tokens *)

Self == "bot"
User == "user"

\* str(client.user.id)
SelfId == <<"1", "2", "3">>

\* f'<@!{client.user.id}>' and f'<@{client.user.id}>'
NickToken == <<"<", "@", "!">> \o SelfId \o <<">">>
PlainToken == <<"<", "@">> \o SelfId \o <<">">>

----------------------------------------------------------------------------
(* Exceptions *)

\* every error of the model is an instance of Exception; Forbidden is the
\* permission error of the chat connector
Exceptions == {"Forbidden", "HTTPException", "ValueError", "AttributeError",
               "KeyError", "ServiceUnavailable", "ResourceExhausted"}

\* does an except clause naming the classes cls catch e
Catches(cls, e) == e \in Exceptions /\ ("Exception" \in cls \/ e \in cls)

----------------------------------------------------------------------------
(* Outbound messages *)

ChunkLimit == 2000

HelpMsg(author) == [kind |-> "help", arg |-> <<author>>]
ChunkMsg(chunk) == [kind |-> "chunk", arg |-> chunk]
BlockedMsg(reason) == [kind |-> "blocked", arg |-> reason]
NoGenMsg == [kind |-> "nogen", arg |-> <<>>]
ApologyMsg == [kind |-> "apology", arg |-> <<>>]

\* the text of a message as the channel shows it
Text(msg) == IF msg.kind = "chunk" THEN msg.arg ELSE <<msg.kind>> \o msg.arg

----------------------------------------------------------------------------
(* Backend responses *)

\* response.text: a string, None, or an accessor that raises ValueError
StrText(s) == [tag |-> "str", val |-> s]
NoneText == [tag |-> "none", val |-> <<>>]
RaisingText == [tag |-> "raises", val |-> <<"ValueError">>]

\* response.prompt_feedback: None, an object without block_reason, an object
\* with a block reason code, or an accessor that raises
NoFeedback == [tag |-> "none", val |-> <<>>]
BareFeedback == [tag |-> "nocode", val |-> <<>>]
CodeFeedback(code) == [tag |-> "code", val |-> code]
RaisingFeedback(e) == [tag |-> "raises", val |-> <<e>>]

\* the outcome of awaiting generate_content_async: an error or a response
Raised(e) == [raised |-> e, text |-> NoneText, feedback |-> NoFeedback]
Response(text, feedback) == [raised |-> "none", text |-> text, feedback |-> feedback]

NoResponse == Raised("none")

\* a generated text of n characters; the character depends on the position
TextChars == <<"a", "b", "c", "d", "e", "f", "g">>
MkText(n) == [k \in 1..n |-> TextChars[(k % 7) + 1]]

----------------------------------------------------------------------------
(* One invocation of on_message *)

NewTask(ev) ==
    [ev |-> ev, pc |-> "start", user_message |-> <<>>, typing |-> "none",
     calls |-> <<>>, response |-> NoResponse, i |-> 0, sends |-> <<>>,
     exc |-> "none", during |-> {}]

SendPcs == {"send_help", "send_chunk", "send_blocked", "send_nogen", "send_apology"}
AwaitPcs == SendPcs \cup {"typing", "calling"}
FinalPcs == {"skipped", "returned", "raised"}

\* await message.channel.send(msg): the task is suspended with the send pending
BeginSend(task, msg, site) ==
    [task EXCEPT !.sends = Append(@, [msg |-> msg, res |-> "pending"]),
                 !.pc = site]

\* the async with block is left: the typing indicator is released
ExitTyping(task) ==
    [task EXCEPT !.typing = IF @ = "held" THEN "released" ELSE @]

Return(task) == [ExitTyping(task) EXCEPT !.pc = "returned"]

\* an exception leaves on_message
Escape(task, e) == [ExitTyping(task) EXCEPT !.pc = "raised", !.exc = e]

\* variant: the plain token is removed before the token with nickname
user_message_PlainFirst(ev) ==
    IF ev.mentioned
    THEN Strip(ReplaceFirst(ReplaceFirst(ev.content, PlainToken), NickToken))
    ELSE IF ev.is_dm THEN Strip(ev.content) ELSE <<>>

\* lines 84-91
user_message(ev) ==
    IF ev.mentioned
    THEN Strip(ReplaceFirst(ReplaceFirst(ev.content, NickToken), PlainToken))
    ELSE IF ev.is_dm THEN Strip(ev.content) ELSE <<>>

\* variant: the check of the author is missing
FromSelf_Never(ev) == FALSE

\* line 70: message.author == client.user
FromSelf(ev) == ev.author = Self

\* variant: the check of the channel and of the mention is missing
Unaddressed_Never(ev) == FALSE

\* lines 74-78: not is_dm and not mentioned
Unaddressed(ev) == ~ev.is_dm /\ ~ev.mentioned

\* lines 67-106: from the arrival of the message to the first await
on_message(task) ==
    LET ev == task.ev
        prompt == user_message(ev)
    IN  IF FromSelf(ev) THEN [task EXCEPT !.pc = "skipped"]
        ELSE IF Unaddressed(ev) THEN [task EXCEPT !.pc = "skipped"]
        ELSE IF prompt = <<>>
             THEN BeginSend([task EXCEPT !.user_message = prompt],
                            HelpMsg(ev.author), "send_help")
             ELSE [task EXCEPT !.user_message = prompt, !.pc = "typing"]

\* lines 106-110: the typing indicator is entered, then the backend is called
AfterTyping(task, res) ==
    IF res = "ok"
    THEN [task EXCEPT !.typing = "held",
                      !.calls = Append(@, task.user_message),
                      !.pc = "calling"]
    ELSE Escape(task, res)

\* variant: the try block holds the backend call alone, not the sends
OuterExcept_CallOnly(task, e) ==
    IF task.pc = "calling" /\ Catches({"Exception"}, e)
    THEN BeginSend(task, ApologyMsg, "send_apology")
    ELSE Escape(task, e)

\* lines 137-141: the error is logged and the apology is sent
OuterExcept(task, e) ==
    IF Catches({"Exception"}, e)
    THEN BeginSend(task, ApologyMsg, "send_apology")
    ELSE Escape(task, e)

\* variant: the slice ends one character early
SendChunk_Short(task) ==
    LET gemini_reply == task.response.text.val
    IN  IF task.i < Len(gemini_reply)
        THEN BeginSend(task,
                       ChunkMsg(Slice(gemini_reply, task.i, task.i + ChunkLimit - 1)),
                       "send_chunk")
        ELSE Return(task)

\* lines 118-120: the next chunk of the reply, or the end of the loop
SendChunk(task) ==
    LET gemini_reply == task.response.text.val
    IN  IF task.i < Len(gemini_reply)
        THEN BeginSend(task,
                       ChunkMsg(Slice(gemini_reply, task.i, task.i + ChunkLimit)),
                       "send_chunk")
        ELSE Return(task)

\* variant: the block reason of the feedback is not read
block_reason_Unread(safety_feedback) == <<"N", "/", "A">>

\* variant: the attribute is read without the hasattr test
block_reason_NoFallback(safety_feedback) == safety_feedback.val

\* line 128
block_reason(safety_feedback) ==
    IF safety_feedback.tag = "code" THEN safety_feedback.val ELSE <<"N", "/", "A">>

\* lines 131-134
InnerExcept(task, e) ==
    IF Catches({"ValueError", "AttributeError"}, e)
    THEN BeginSend(task, NoGenMsg, "send_nogen")
    ELSE OuterExcept(task, e)

\* lines 110-134: the backend call has completed with r
AfterGenerate(task, r) ==
    LET t1 == [task EXCEPT !.response = r]
    IN  IF r.raised # "none" THEN OuterExcept(t1, r.raised)
        ELSE IF r.text.tag = "raises" THEN OuterExcept(t1, r.text.val[1])
        ELSE IF r.text.val # <<>> THEN SendChunk([t1 EXCEPT !.i = 0])
        ELSE IF r.feedback.tag = "raises" THEN InnerExcept(t1, r.feedback.val[1])
        ELSE BeginSend(t1, BlockedMsg(block_reason(r.feedback)), "send_blocked")

\* variant: the return after the help message is missing
AfterHelp_FallsThrough(task, res) ==
    IF res = "ok" \/ Catches({"Forbidden"}, res) \/ Catches({"Exception"}, res)
    THEN [task EXCEPT !.pc = "typing"]
    ELSE Escape(task, res)

\* lines 99-103: the help send has completed
AfterHelp(task, res) ==
    IF res = "ok" \/ Catches({"Forbidden"}, res) \/ Catches({"Exception"}, res)
    THEN [task EXCEPT !.pc = "returned"]
    ELSE Escape(task, res)

\* variant: the apology send is guarded against Forbidden alone
AfterApology_OnlyForbidden(task, res) ==
    IF res = "ok" \/ Catches({"Forbidden"}, res)
    THEN Return(task)
    ELSE Escape(task, res)

\* lines 142-145: the apology send has completed
AfterApology(task, res) ==
    IF res = "ok" \/ Catches({"Forbidden"}, res) \/ Catches({"Exception"}, res)
    THEN Return(task)
    ELSE Escape(task, res)

\* variant: the try block is inside the loop, a failed chunk is passed over
AfterSend_SkipFailedChunk(task, res) ==
    LET t1 == [task EXCEPT !.sends[Len(task.sends)].res = res]
    IN  CASE task.pc = "send_help" -> AfterHelp(t1, res)
          [] task.pc = "send_chunk" -> SendChunk([t1 EXCEPT !.i = @ + ChunkLimit])
          [] task.pc = "send_blocked" ->
                IF res = "ok" THEN Return(t1) ELSE InnerExcept(t1, res)
          [] task.pc = "send_nogen" ->
                IF res = "ok" THEN Return(t1) ELSE OuterExcept(t1, res)
          [] task.pc = "send_apology" -> AfterApology(t1, res)

\* a send has completed with res: "ok" or the exception it raised
AfterSend(task, res) ==
    LET t1 == [task EXCEPT !.sends[Len(task.sends)].res = res]
    IN  CASE task.pc = "send_help" -> AfterHelp(t1, res)
          [] task.pc = "send_chunk" ->
                IF res = "ok" THEN SendChunk([t1 EXCEPT !.i = @ + ChunkLimit])
                ELSE OuterExcept(t1, res)
          [] task.pc = "send_blocked" ->
                IF res = "ok" THEN Return(t1) ELSE InnerExcept(t1, res)
          [] task.pc = "send_nogen" ->
                IF res = "ok" THEN Return(t1) ELSE OuterExcept(t1, res)
          [] task.pc = "send_apology" -> AfterApology(t1, res)

----------------------------------------------------------------------------
(* The environment: what the chat connector and the backend may deliver *)

Event(author, is_dm, mentioned, content) ==
    [author |-> author, is_dm |-> is_dm, mentioned |-> mentioned,
     content |-> content, depth |-> 0]

Pieces == {NickToken, PlainToken, <<"<", "@">>, <<"<", "@", "!">>,
           SelfId \o <<">">>, <<" ">>, <<"h", "i">>}

RECURSIVE Concats(_)
Concats(n) ==
    IF n = 0 THEN {<<>>}
    ELSE LET shorter == Concats(n - 1)
         IN  shorter \cup {p \o c : p \in Pieces, c \in shorter}

\* the raw text "<@123> hello"
MentionHello == PlainToken \o <<" ", "h", "e", "l", "l", "o">>

\* raw texts of the messages users write
FewContents == {<<>>, <<" ">>, PlainToken, NickToken \o <<" ", "h", "i">>, <<"h", "i">>}
AllContents == Concats(MaxPieces)

TextLens ==
    {n \in {k * ChunkLimit + d : k \in 0..MaxFull, d \in (0 - Slack)..Slack} : n > 0}
        \cup {2 * ChunkLimit + 500}

SendResults == {"ok", "Forbidden", "HTTPException", "ValueError"}

Feedbacks ==
    {NoFeedback, BareFeedback, CodeFeedback(<<"SAFETY">>),
     CodeFeedback(<<"HATE_SPEECH">>)}
        \cup {RaisingFeedback(e) : e \in {"ValueError", "AttributeError", "KeyError"}}

BackendErrors == {"ServiceUnavailable", "ResourceExhausted"}

UserEvents(contents) ==
    {Event(User, d, m, c) : d \in BOOLEAN, m \in BOOLEAN, c \in contents}

\* the concurrent environment: several events in flight, few outcomes each
ConcEnv ==
    [events |-> UserEvents({PlainToken, <<"h", "i">>}),
     typing |-> {"ok", "Forbidden"},
     results |-> {Raised("ServiceUnavailable"),
                  Response(StrText(MkText(1)), NoFeedback),
                  Response(NoneText, CodeFeedback(<<"SAFETY">>))},
     sendres |-> {"ok", "Forbidden"}]

\* one event, every outcome of the backend call and of the sends
SoloEnv ==
    [events |-> UserEvents(FewContents)
                    \cup {[Event(Self, d, m, PlainToken \o <<"h", "i">>)
                             EXCEPT !.depth = 1] : d \in BOOLEAN, m \in BOOLEAN},
     typing |-> {"ok", "Forbidden", "HTTPException"},
     results |-> {Raised(e) : e \in BackendErrors}
                    \cup {Response(StrText(MkText(n)), NoFeedback) :
                            n \in {1, ChunkLimit + 1}}
                    \cup {Response(RaisingText, NoFeedback)}
                    \cup {Response(t, f) : t \in {NoneText, StrText(<<>>)},
                                           f \in Feedbacks},
     sendres |-> SendResults]

\* one event, replies of every length around the chunk limit
ChunkEnv ==
    [events |-> {Event(User, TRUE, FALSE, <<"h", "i">>),
                 Event(User, FALSE, TRUE, PlainToken \o <<"h", "i">>)},
     typing |-> {"ok", "Forbidden"},
     results |-> {Response(StrText(MkText(n)), NoFeedback) : n \in TextLens},
     sendres |-> {"ok", "Forbidden", "HTTPException"}]

\* one event, every raw text
ExtractEnv ==
    [events |-> UserEvents(AllContents \cup {MentionHello}),
     typing |-> {"ok", "Forbidden"},
     results |-> {Response(StrText(MkText(1)), NoFeedback)},
     sendres |-> {"ok", "Forbidden"}]

\* several events in flight, each answered with a reply of two chunks
OrderEnv ==
    [events |-> {Event(User, TRUE, FALSE, <<"h", "i">>),
                 Event(User, FALSE, TRUE, PlainToken \o <<"h", "i">>)},
     typing |-> {"ok"},
     results |-> {Response(StrText(MkText(ChunkLimit + 1)), NoFeedback)},
     sendres |-> {"ok", "Forbidden"}]

\* two runs of the handler on one event, the errors of every step varied
PairEnv ==
    [events |-> {Event(User, TRUE, FALSE, <<"h", "i">>)},
     typing |-> {"ok", "Forbidden", "HTTPException"},
     results |-> {Raised(e) : e \in BackendErrors}
                    \cup {Response(StrText(MkText(1)), NoFeedback),
                          Response(NoneText, CodeFeedback(<<"SAFETY">>))}
                    \cup {Response(NoneText, RaisingFeedback(e)) :
                            e \in {"ValueError", "KeyError"}},
     sendres |-> {"ok", "Forbidden", "ValueError"}]

\* the bot's own messages come back as inbound events of the same channel
Echoes ==
    UNION {{[author |-> Self, is_dm |-> tasks[p].ev.is_dm, mentioned |-> m,
             content |-> Text(tasks[p].sends[k].msg),
             depth |-> tasks[p].ev.depth + 1] :
                k \in {j \in DOMAIN tasks[p].sends : tasks[p].sends[j].res = "ok"},
                m \in BOOLEAN} :
           p \in DOMAIN tasks}

----------------------------------------------------------------------------
(* Actions *)

\* the bot has connected and no message has arrived
Init == tasks = <<>>

\* one message has arrived and its on_message task is scheduled
InitOne(E) == \E ev \in E.events : tasks = <<NewTask(ev)>>

\* variant: the backend call is made without await and holds the event loop
Resumable_Blocking(t, pcs) ==
    /\ t \in DOMAIN tasks
    /\ tasks[t].pc \in pcs
    /\ \A a \in DOMAIN tasks \ {t} : tasks[a].pc # "calling"

\* a task suspended at an await resumes when the awaited call completes
Resumable(t, pcs) == t \in DOMAIN tasks /\ tasks[t].pc \in pcs

\* a message arrives: the connector schedules a task running on_message;
\* during records the tasks whose backend call is pending at that moment
Receive(E) ==
    /\ Len(tasks) < MaxEvents
    /\ \E ev \in E.events \cup Echoes :
          tasks' = Append(tasks,
                          [NewTask(ev) EXCEPT !.during =
                              {a \in DOMAIN tasks : tasks[a].pc = "calling"}])

\* task t runs on_message to its first await
StartTask(t) ==
    /\ Resumable(t, {"start"})
    /\ tasks' = [tasks EXCEPT ![t] = on_message(@)]

\* channel.typing() of task t has been entered, or has failed
TypingDoneTask(E, t) ==
    \E res \in E.typing :
        /\ Resumable(t, {"typing"})
        /\ tasks' = [tasks EXCEPT ![t] = AfterTyping(@, res)]

\* variant: response is a module-level name that every invocation assigns
GenerateDoneTask_Shared(E, t) ==
    \E r \in E.results :
        /\ Resumable(t, {"calling"})
        /\ tasks' = [a \in DOMAIN tasks |->
                        IF a = t THEN AfterGenerate(tasks[a], r)
                        ELSE [tasks[a] EXCEPT !.response = r]]

\* generate_content_async of task t has returned or raised
GenerateDoneTask(E, t) ==
    \E r \in E.results :
        /\ Resumable(t, {"calling"})
        /\ tasks' = [tasks EXCEPT ![t] = AfterGenerate(@, r)]

\* channel.send of task t has returned or raised
SendDoneTask(E, t) ==
    \E res \in E.sendres :
        /\ Resumable(t, SendPcs)
        /\ tasks' = [tasks EXCEPT ![t] = AfterSend(@, res)]

Start == \E t \in DOMAIN tasks : StartTask(t)
TypingDone(E) == \E t \in DOMAIN tasks : TypingDoneTask(E, t)
GenerateDone(E) == \E t \in DOMAIN tasks : GenerateDoneTask(E, t)
SendDone(E) == \E t \in DOMAIN tasks : SendDoneTask(E, t)

\* several events in flight
Next == Receive(ConcEnv) \/ Start \/ TypingDone(ConcEnv)
            \/ GenerateDone(ConcEnv) \/ SendDone(ConcEnv)
Spec == Init /\ [][Next]_vars

\* one event, every outcome of the backend call and of the sends
InitSolo == InitOne(SoloEnv)
NextSolo == Start \/ TypingDone(SoloEnv) \/ GenerateDone(SoloEnv)
                \/ SendDone(SoloEnv)
SoloSpec == InitSolo /\ [][NextSolo]_vars

\* one event, replies of every length around the chunk limit
InitChunk == InitOne(ChunkEnv)
NextChunk == Start \/ TypingDone(ChunkEnv) \/ GenerateDone(ChunkEnv)
                \/ SendDone(ChunkEnv)
ChunkSpec == InitChunk /\ [][NextChunk]_vars

\* one event, every raw text
InitExtract == InitOne(ExtractEnv)
NextExtract == Start \/ TypingDone(ExtractEnv) \/ GenerateDone(ExtractEnv)
                \/ SendDone(ExtractEnv)
ExtractSpec == InitExtract /\ [][NextExtract]_vars

\* one event; the event loop runs the handler, and the typing, backend and
\* send calls it awaits all complete, with a result or an error
FairSoloSpec ==
    /\ InitSolo /\ [][NextSolo]_vars
    /\ WF_vars(Start)
    /\ WF_vars(TypingDone(SoloEnv))
    /\ WF_vars(GenerateDone(SoloEnv))
    /\ WF_vars(SendDone(SoloEnv))

\* two runs of the handler on the same event
InitPair == \E ev \in PairEnv.events : tasks = <<NewTask(ev), NewTask(ev)>>
NextPair == Start \/ TypingDone(PairEnv) \/ GenerateDone(PairEnv)
                \/ SendDone(PairEnv)
PairSpec == InitPair /\ [][NextPair]_vars

\* several events in flight, replies of several chunks
NextOrder == Receive(OrderEnv) \/ Start \/ TypingDone(OrderEnv)
                \/ GenerateDone(OrderEnv) \/ SendDone(OrderEnv)
OrderSpec == Init /\ [][NextOrder]_vars

----------------------------------------------------------------------------
(* Vocabulary of the properties *)

Ids == DOMAIN tasks

\* on_message has run on the event of task t
Started(t) == tasks[t].pc # "start"

Eligible(ev) == ev.author # Self /\ (ev.is_dm \/ ev.mentioned)

\* the backend call of task t has completed with a response without text
NoTextReturned(t) ==
    /\ tasks[t].calls # <<>>
    /\ tasks[t].pc # "calling"
    /\ tasks[t].response.raised = "none"
    /\ tasks[t].response.text.tag # "raises"
    /\ tasks[t].response.text.val = <<>>

FailedSends(t) == {k \in DOMAIN tasks[t].sends : tasks[t].sends[k].res \in Exceptions}

Kinds(t) == [k \in DOMAIN tasks[t].sends |-> tasks[t].sends[k].msg.kind]

RECURSIVE Concat(_)
Concat(seqs) == IF seqs = <<>> THEN <<>> ELSE Head(seqs) \o Concat(Tail(seqs))

----------------------------------------------------------------------------
(* C1: an event written by the bot itself is skipped: no send, no backend   *)
(* call and no typing indicator, in a direct and in a group channel, with   *)
(* and without a mention of the bot; so the echo of a reply never starts a  *)
(* further reply, and every event is at most the echo of a reply to a user. *)
C1_SelfSkipped ==
    \A t \in Ids :
        /\ tasks[t].ev.author = Self =>
              /\ tasks[t].pc \in {"start", "skipped"}
              /\ tasks[t].sends = <<>>
              /\ tasks[t].calls = <<>>
              /\ tasks[t].typing = "none"
        /\ tasks[t].ev.depth <= 1

C1_Witness ==
    \E t \in Ids :
        /\ tasks[t].ev.author = Self
        /\ tasks[t].ev.is_dm
        /\ tasks[t].ev.mentioned
        /\ tasks[t].pc = "skipped"

(* C2: an event of a group channel that does not mention the bot is         *)
(* skipped: no send is attempted and the backend is not called.             *)
C2_UnaddressedSkipped ==
    \A t \in Ids :
        ~tasks[t].ev.is_dm /\ ~tasks[t].ev.mentioned =>
            /\ tasks[t].pc \in {"start", "skipped"}
            /\ tasks[t].sends = <<>>
            /\ tasks[t].calls = <<>>

C2_Witness ==
    \E t \in Ids :
        /\ tasks[t].ev.author = User
        /\ ~tasks[t].ev.is_dm /\ ~tasks[t].ev.mentioned
        /\ tasks[t].ev.content = NickToken \o <<" ", "h", "i">>
        /\ tasks[t].pc = "skipped"

(* C3: when the bot is mentioned, the prompt on_message extracts contains   *)
(* neither <@!ID> nor <@ID>, whatever the raw text.                         *)
C3_NoTokenInPrompt ==
    \A t \in Ids :
        tasks[t].ev.mentioned /\ Started(t) /\ tasks[t].pc # "skipped" =>
            /\ ~Contains(tasks[t].user_message, NickToken)
            /\ ~Contains(tasks[t].user_message, PlainToken)

(* C4: when every send of a non-empty reply of length L has succeeded, the  *)
(* messages sent are the chunks of the reply and nothing else: joined in    *)
(* send order they are the reply, each has 1 to 2000 characters, there are  *)
(* ceil(L/2000) of them, and for L = 4500 they have 2000, 2000 and 500.     *)
C4_Chunking ==
    \A t \in Ids :
        LET text == tasks[t].response.text.val
            sent == tasks[t].sends
            lens == [k \in DOMAIN sent |-> Len(sent[k].msg.arg)]
        IN  /\ tasks[t].pc = "returned"
            /\ text # <<>>
            /\ \A k \in DOMAIN sent : sent[k].res = "ok"
            => /\ \A k \in DOMAIN sent : sent[k].msg.kind = "chunk"
               /\ Concat([k \in DOMAIN sent |-> sent[k].msg.arg]) = text
               /\ \A k \in DOMAIN sent : lens[k] >= 1 /\ lens[k] <= 2000
               /\ Len(sent) = (Len(text) + 1999) \div 2000
               /\ Len(text) <= 2000 => Len(sent) = 1
               /\ Len(text) = 4500 => lens = <<2000, 2000, 500>>

C4_Witness ==
    \E t \in Ids :
        /\ tasks[t].pc = "returned"
        /\ Len(tasks[t].response.text.val) = 4500
        /\ Len(tasks[t].sends) = 3
        /\ \A k \in DOMAIN tasks[t].sends : tasks[t].sends[k].res = "ok"

(* C5: for an eligible event with an empty prompt the one send attempted is *)
(* the help message to the author; the backend is not called, the typing    *)
(* indicator is not entered, and the handler returns when the send has      *)
(* completed, with or without an error.                                     *)
C5_HelpOnly ==
    \A t \in Ids :
        Eligible(tasks[t].ev) /\ Started(t) /\ tasks[t].user_message = <<>> =>
            /\ Len(tasks[t].sends) = 1
            /\ tasks[t].sends[1].msg = HelpMsg(tasks[t].ev.author)
            /\ tasks[t].calls = <<>>
            /\ tasks[t].typing = "none"
            /\ tasks[t].pc = IF tasks[t].sends[1].res = "pending"
                             THEN "send_help" ELSE "returned"

C5_Witness ==
    \E t \in Ids :
        /\ Eligible(tasks[t].ev)
        /\ tasks[t].ev.content = PlainToken
        /\ tasks[t].user_message = <<>>
        /\ Len(tasks[t].sends) = 1
        /\ tasks[t].sends[1].res = "Forbidden"
        /\ tasks[t].pc = "returned"

(* C6: the backend is called at most once per event, with the prompt; when  *)
(* the handling of an eligible event with a non-empty prompt has ended it   *)
(* has been called exactly once, and for a skipped event never.             *)
C6_OneCall ==
    \A t \in Ids :
        /\ Len(tasks[t].calls) <= 1
        /\ \A k \in DOMAIN tasks[t].calls : tasks[t].calls[k] = tasks[t].user_message
        /\ tasks[t].pc = "skipped" => tasks[t].calls = <<>>
        /\ Eligible(tasks[t].ev) /\ tasks[t].user_message # <<>>
              /\ tasks[t].pc \in FinalPcs
           => Len(tasks[t].calls) = 1

(* C7: when the backend call raises, the one send attempted is the apology  *)
(* and no exception leaves on_message: the handler returns when that send   *)
(* has completed, whatever its result.                                      *)
C7_ApologyOnly ==
    \A t \in Ids :
        tasks[t].calls # <<>> /\ tasks[t].pc # "calling"
            /\ tasks[t].response.raised # "none" =>
            /\ Len(tasks[t].sends) = 1
            /\ tasks[t].sends[1].msg = ApologyMsg
            /\ tasks[t].exc = "none"
            /\ tasks[t].pc = IF tasks[t].sends[1].res = "pending"
                             THEN "send_apology" ELSE "returned"

C7_Witness ==
    \E t \in Ids :
        /\ tasks[t].response.raised = "ResourceExhausted"
        /\ Len(tasks[t].sends) = 1
        /\ tasks[t].sends[1].res = "HTTPException"
        /\ tasks[t].pc = "returned"

(* C8 as stated: when the backend returns no text and a safety feedback     *)
(* with a block reason code, a single message is sent for the event, the    *)
(* blocked-by-safety message with that code, and no other message.          *)
C8_BlockedOnly ==
    \A t \in Ids :
        NoTextReturned(t) /\ tasks[t].response.feedback.tag = "code" =>
            /\ Len(tasks[t].sends) = 1
            /\ tasks[t].sends[1].msg = BlockedMsg(tasks[t].response.feedback.val)

(* C8 as amended: in that case the first message sent is the blocked-by-    *)
(* safety message with the code and no chunk is sent; it is the only        *)
(* message when its send succeeds; when its send fails the handler goes on  *)
(* to the could-not-generate message (after a ValueError or AttributeError) *)
(* or to the apology.                                                       *)
C8_BlockedFirst ==
    \A t \in Ids :
        NoTextReturned(t) /\ tasks[t].response.feedback.tag = "code" =>
            LET sent == tasks[t].sends
            IN  /\ Len(sent) >= 1
                /\ sent[1].msg = BlockedMsg(tasks[t].response.feedback.val)
                /\ \A k \in DOMAIN sent : sent[k].msg.kind # "chunk"
                /\ sent[1].res = "pending" => Len(sent) = 1
                /\ sent[1].res = "ok" => Len(sent) = 1 /\ tasks[t].pc = "returned"
                /\ sent[1].res \in {"ValueError", "AttributeError"} =>
                      Kinds(t) \in {<<"blocked", "nogen">>,
                                    <<"blocked", "nogen", "apology">>}
                /\ sent[1].res \in Exceptions \ {"ValueError", "AttributeError"} =>
                      Kinds(t) = <<"blocked", "apology">>

C8_Witness ==
    \E t \in Ids :
        /\ NoTextReturned(t)
        /\ tasks[t].response.feedback = CodeFeedback(<<"HATE_SPEECH">>)
        /\ Len(tasks[t].sends) = 1
        /\ tasks[t].sends[1].res = "ok"
        /\ tasks[t].pc = "returned"

(* C9: no failure of a send leaves on_message: whichever send has failed,   *)
(* with a permission error or another error, no exception has escaped, and  *)
(* the handler is at a later send or has returned.                          *)
C9_SendFailureContained ==
    \A t \in Ids :
        FailedSends(t) # {} =>
            /\ tasks[t].exc = "none"
            /\ tasks[t].pc \in {"send_nogen", "send_apology", "returned"}
            /\ tasks[t].sends[Len(tasks[t].sends)].res # "pending"
                  => tasks[t].pc = "returned"

C9_Witness ==
    \E t \in Ids :
        /\ Kinds(t) = <<"blocked", "nogen", "apology">>
        /\ tasks[t].sends[1].res = "ValueError"
        /\ tasks[t].sends[2].res = "Forbidden"
        /\ tasks[t].sends[3].res = "HTTPException"
        /\ tasks[t].pc = "returned"

(* C10: a pending backend call blocks nothing: while the call of a task is  *)
(* pending, a new event can be received and every other task can take its   *)
(* next step, from the start of on_message to the end of its last send.     *)
C10_CallDoesNotBlock ==
    \A a \in Ids :
        tasks[a].pc = "calling" =>
            /\ Len(tasks) < MaxEvents => ENABLED Receive(ConcEnv)
            /\ \A b \in Ids \ {a} :
                  /\ tasks[b].pc = "start" => ENABLED StartTask(b)
                  /\ tasks[b].pc = "typing" => ENABLED TypingDoneTask(ConcEnv, b)
                  /\ tasks[b].pc = "calling" => ENABLED GenerateDoneTask(ConcEnv, b)
                  /\ tasks[b].pc \in SendPcs => ENABLED SendDoneTask(ConcEnv, b)

C10_Witness ==
    \E a \in Ids, b \in Ids :
        /\ tasks[a].pc = "calling"
        /\ a \in tasks[b].during
        /\ tasks[b].pc = "returned"
        /\ Len(tasks[b].calls) = 1
        /\ Kinds(b) = <<"chunk">>
        /\ tasks[b].sends[1].res = "ok"

(* C11 as stated: a failed send is terminal: once a send of an event has    *)
(* failed, no further send of any kind is attempted for that event.         *)
C11_FailedSendTerminal ==
    \A t \in Ids : \A k \in FailedSends(t) : k = Len(tasks[t].sends)

(* C11 as amended: a failed send ends the reply, not the handling: after a  *)
(* failed chunk send no further chunk is sent and the apology is attempted  *)
(* once; after a failed blocked-by-safety send the could-not-generate       *)
(* message (ValueError, AttributeError) or the apology is attempted; after  *)
(* a failed could-not-generate send the apology is attempted; only a failed *)
(* help or apology send is terminal.                                        *)
C11_FailedSendFallback ==
    \A t \in Ids : \A k \in FailedSends(t) :
        LET sent == tasks[t].sends
            kind == sent[k].msg.kind
            inner == sent[k].res \in {"ValueError", "AttributeError"}
        IN  /\ kind \in {"help", "apology"} => k = Len(sent)
            /\ kind \in {"chunk", "nogen"} =>
                  Len(sent) = k + 1 /\ sent[k + 1].msg = ApologyMsg
            /\ kind = "blocked" /\ ~inner =>
                  Len(sent) = k + 1 /\ sent[k + 1].msg = ApologyMsg
            /\ kind = "blocked" /\ inner =>
                  Len(sent) >= k + 1 /\ sent[k + 1].msg = NoGenMsg
            /\ \A j \in DOMAIN sent : j > k => sent[j].msg.kind # "chunk"

C11_Witness ==
    \E t \in Ids :
        /\ Kinds(t) = <<"chunk", "chunk", "apology">>
        /\ tasks[t].sends[1].res = "ok"
        /\ tasks[t].sends[2].res = "Forbidden"
        /\ tasks[t].sends[3].res = "ok"
        /\ tasks[t].pc = "returned"

(* C12: the chunks of one event are sent one after the other in increasing  *)
(* offset order, whatever the other events in flight do: at most one send   *)
(* of the event is pending, and it is the last one begun; the k-th chunk is *)
(* the k-th slice of the reply and is begun only when every chunk before it *)
(* has been sent with success; a failed chunk is not sent again and no      *)
(* chunk follows it.                                                        *)
C12_ChunksInOrder ==
    \A t \in Ids :
        LET sent == tasks[t].sends
            text == tasks[t].response.text.val
        IN  /\ \A k \in DOMAIN sent : sent[k].res = "pending" => k = Len(sent)
            /\ \A k \in DOMAIN sent :
                  sent[k].msg.kind = "chunk" =>
                      /\ sent[k].msg.arg = Slice(text, (k - 1) * 2000, k * 2000)
                      /\ sent[k].msg.arg # <<>>
                      /\ \A j \in 1..(k - 1) :
                            sent[j].msg.kind = "chunk" /\ sent[j].res = "ok"

C12_Witness ==
    \E a \in Ids, b \in Ids :
        /\ a # b
        /\ Kinds(a) = <<"chunk", "chunk">>
        /\ tasks[a].sends[2].res = "pending"
        /\ tasks[a].sends[1].res = "ok"
        /\ Kinds(b) = <<"chunk", "chunk">>
        /\ tasks[b].sends[2].res = "pending"
        /\ tasks[b].sends[1].res = "ok"


(* C13: a failure to acquire the typing indicator does not abort the flow:  *)
(* once an eligible event with a non-empty prompt is past the acquisition,  *)
(* whatever its result, the backend has been called with the prompt, and no *)
(* exception leaves on_message.                                             *)
C13_TypingBestEffort ==
    \A t \in Ids :
        /\ Eligible(tasks[t].ev)
        /\ tasks[t].user_message # <<>>
        /\ tasks[t].pc \notin {"start", "typing"}
        => /\ tasks[t].calls = <<tasks[t].user_message>>
           /\ tasks[t].pc # "raised"


\* s with the n characters from position i on left out
Cut(s, i, n) == [k \in 1..(Len(s) - n) |-> IF k < i THEN s[k] ELSE s[k + n]]

\* r is s without the leftmost occurrence of tok, or s when tok does not occur
RemovedFirst(s, tok, r) ==
    LET n == Len(tok)
        At(i) == \A k \in 1..n : s[i + k - 1] = tok[k]
        starts == 1..(Len(s) - n + 1)
    IN  \/ r = s /\ \A i \in starts : ~At(i)
        \/ \E i \in starts :
              /\ At(i)
              /\ \A j \in 1..(i - 1) : ~At(j)
              /\ r = Cut(s, i, n)

\* r is s without its leading and trailing whitespace
Trimmed(s, r) ==
    \E a \in 0..Len(s), b \in 0..Len(s) :
        /\ a + b <= Len(s)
        /\ \A k \in 1..a : s[k] \in WhiteSpace
        /\ \A k \in (Len(s) - b + 1)..Len(s) : s[k] \in WhiteSpace
        /\ r = [k \in 1..(Len(s) - a - b) |-> s[k + a]]
        /\ r # <<>> => r[1] \notin WhiteSpace /\ r[Len(r)] \notin WhiteSpace

\* what is left of s when at most one occurrence of tok is removed
Cuts(s, tok) == {s} \cup {Cut(s, i, Len(tok)) : i \in 1..(Len(s) - Len(tok) + 1)}

(* C14: the prompt of an eligible event is, when the bot is mentioned, the  *)
(* raw text without the first <@!ID>, then without the first <@ID> of what  *)
(* is left, then trimmed; when the event is direct and the bot is not       *)
(* mentioned, the raw text trimmed; "<@123> hello" gives "hello"; a         *)
(* non-empty prompt goes on to the backend and is the argument of the call. *)
C14_PromptExtraction ==
    \A t \in Ids :
        Eligible(tasks[t].ev) /\ Started(t) =>
            LET ev == tasks[t].ev
                prompt == tasks[t].user_message
            IN  /\ ev.mentioned =>
                      \E r1 \in Cuts(ev.content, NickToken) :
                          /\ RemovedFirst(ev.content, NickToken, r1)
                          /\ \E r2 \in Cuts(r1, PlainToken) :
                                /\ RemovedFirst(r1, PlainToken, r2)
                                /\ Trimmed(r2, prompt)
                /\ ~ev.mentioned => Trimmed(ev.content, prompt)
                /\ ev.mentioned /\ ev.content = MentionHello =>
                      prompt = <<"h", "e", "l", "l", "o">>
                /\ prompt # <<>> =>
                      /\ Kinds(t) \notin {<<"help">>}
                      /\ tasks[t].pc # "skipped"
                      /\ \A k \in DOMAIN tasks[t].calls : tasks[t].calls[k] = prompt
                      /\ tasks[t].typing # "none" => tasks[t].calls = <<prompt>>

C14_Witness ==
    \E t \in Ids :
        /\ tasks[t].ev.mentioned
        /\ tasks[t].ev.content = MentionHello
        /\ tasks[t].calls = <<<<"h", "e", "l", "l", "o">>>>
        /\ Kinds(t) = <<"chunk">>
        /\ tasks[t].pc = "returned"


(* C15: when the backend returns no text and no safety indicator can be     *)
(* obtained (the feedback is absent, or reading it raises any error), the   *)
(* first message on_message sends is the could-not-generate message, and    *)
(* when that send succeeds it is the only one: neither the blocked message  *)
(* nor the apology is sent.                                                 *)
C15_NoGenWhenNoIndicator ==
    \A t \in Ids :
        /\ NoTextReturned(t)
        /\ tasks[t].response.feedback.tag \in {"none", "raises"}
        => /\ tasks[t].sends # <<>>
           /\ tasks[t].sends[1].msg = NoGenMsg
           /\ tasks[t].sends[1].res = "ok" => Len(tasks[t].sends) = 1


Outcome(res) == IF res \in Exceptions THEN "error" ELSE res

Part(p) == [tag |-> p.tag, val |-> IF p.tag = "raises" THEN <<>> ELSE p.val]

ResponseShape(r) ==
    [raised |-> Outcome(r.raised), text |-> Part(r.text), feedback |-> Part(r.feedback)]

\* the ended runs a and b handled the same event and every step of theirs
\* had the same result, up to which error was raised
SameButErrors(a, b) ==
    /\ tasks[a].pc \in FinalPcs /\ tasks[b].pc \in FinalPcs
    /\ tasks[a].ev = tasks[b].ev
    /\ (tasks[a].typing = "none") <=> (tasks[b].typing = "none")
    /\ (tasks[a].calls = <<>>) <=> (tasks[b].calls = <<>>)
    /\ ResponseShape(tasks[a].response) = ResponseShape(tasks[b].response)
    /\ \A k \in DOMAIN tasks[a].sends \cap DOMAIN tasks[b].sends :
          Outcome(tasks[a].sends[k].res) = Outcome(tasks[b].sends[k].res)

Messages(t) == [k \in DOMAIN tasks[t].sends |-> tasks[t].sends[k].msg]

(* C17: two runs of on_message on the same event that differ only in which  *)
(* error the backend call or a later step raised send the same messages in  *)
(* the same order.                                                          *)
C17_ErrorNotExposed ==
    \A a \in Ids, b \in Ids : SameButErrors(a, b) => Messages(a) = Messages(b)


\* the handler run on from state s with the results task has had for its
\* sends from the k-th on
RECURSIVE ReplaySends(_, _, _)
ReplaySends(s, task, k) ==
    IF k > Len(task.sends) \/ s.pc \notin SendPcs \/ k # Len(s.sends) THEN s
    ELSE IF task.sends[k].res = "pending" THEN s
    ELSE ReplaySends(AfterSend(s, task.sends[k].res), task, k + 1)

\* the state of an invocation that handles the event of task with nothing
\* else in flight and is given the results task has had so far: for the
\* typing indicator, for the backend call and for each send
Alone(task) ==
    LET s0 == [NewTask(task.ev) EXCEPT !.during = task.during]
        s1 == IF task.pc = "start" THEN s0 ELSE on_message(s0)
        s2 == IF s1.pc = "typing" /\ task.pc # "typing"
              THEN AfterTyping(s1, IF task.typing = "none" THEN task.exc ELSE "ok")
              ELSE s1
        s3 == IF s2.pc = "calling" /\ task.pc # "calling"
              THEN AfterGenerate(s2, task.response)
              ELSE s2
    IN  ReplaySends(s3, task, 1)

(* C18: events in flight together do not interfere: in every interleaving   *)
(* the state of each invocation, and so the contents, number and order of   *)
(* the messages sent for its event, is the one the handler reaches alone    *)
(* on that event with the same results of its own typing, backend and send  *)
(* calls, whatever the prompts, backend outcomes and send failures of the   *)
(* other events.                                                            *)
C18_NoInterference ==
    \A t \in Ids : tasks[t] = Alone(tasks[t])

C18_Witness ==
    \E a \in Ids, b \in Ids :
        /\ a \in tasks[b].during
        /\ tasks[a].user_message # tasks[b].user_message
        /\ tasks[a].response.raised # "none"
        /\ Kinds(a) = <<"apology">>
        /\ tasks[a].sends[1].res = "Forbidden"
        /\ tasks[a].pc = "returned"
        /\ Kinds(b) = <<"chunk">>
        /\ tasks[b].sends[1].res = "ok"
        /\ tasks[b].pc = "returned"


(* C19: when every call it awaits completes, an invocation of on_message    *)
(* never calls the backend twice, never goes back to an earlier step, sends *)
(* a bounded number of messages, and in the end is in a terminal state,     *)
(* skipped or returned after its sends (delivered or not), with the typing  *)
(* indicator no longer held.                                                *)
C19_Terminates ==
    /\ [](/\ Len(tasks[1].calls) <= 1
          /\ Len(tasks[1].sends) <=
                LET L == Len(tasks[1].response.text.val)
                IN  IF L = 0 THEN 3 ELSE (L + 1999) \div 2000 + 1)
    /\ [][tasks[1].pc \in FinalPcs => tasks'[1] = tasks[1]]_vars
    /\ <>(tasks[1].pc \in {"skipped", "returned"} /\ tasks[1].typing # "held")

====
